---- MODULE Spec2Model ----
(***************************************************************************)
(* Verification model of three units of the identity-apps sources:         *)
(*   - the self-registration screen (UserSelfRegistration): the load       *)
(*     handler that builds selfSignUpConfigs from the server's property    *)
(*     list, getSelfSignUpPatchCallData that turns it back into the        *)
(*     PATCH payload, the edit form with its confirmation modal, and       *)
(*     the update request with its alerts;                                 *)
(*   - GovernanceConnectorUtils: filterGovernanceConnectorCategories       *)
(*     with its static sub-organization allow-list table, and              *)
(*     resolveFieldLabel / resolveFieldHint with lodash camelCase;         *)
(*   - the invitation wizard (InviteParentOrgUser): inviteParentOrgUser    *)
(*     with the callbacks of its promise chain, and                        *)
(*     handleParentOrgUserInviteError.                                     *)
(***************************************************************************)
EXTENDS Integers, Sequences, FiniteSets, TLC

VARIABLES
    \* ---- UserSelfRegistration: load handler and patch data --------------
    response,            \* the body getSelfSignUpConfigurations resolves with
    loadState,           \* "pending" | "resolved" | "threw"
    loadError,           \* what the load handler threw (NoError when nothing)
    selfSignUpConfigs,   \* useState<SelfSignUpConfigurationsInterface>({})
    patchCall,           \* last getSelfSignUpPatchCallData(): input and outcome
    editingForm,         \* editingForm[USER_SELF_REGISTRATION_FORM_IDENTIFIER]
    showConfirmationModal,
    \* ---- GovernanceConnectorUtils ---------------------------------------
    SHOW_GOVERNANCE_CONNECTORS_FOR_SUBORGS,  \* the static allow-list table
    governanceConnectors, \* the caller's connector objects, by reference
    filterCall,          \* last filterGovernanceConnectorCategories call
    i18nResources,       \* what I18n.instance holds: lookup key -> translation
    resolveCall,         \* last resolveFieldLabel / resolveFieldHint call
    \* ---- UserSelfRegistration: requests and alerts ----------------------
    getRequests,         \* getSelfSignUpConfigurations() calls made so far
    continueClicks,      \* clicks on the confirmation modal's Continue button
    patchRequests,       \* the updateSelfSignUpConfigurations(data) calls
    alerts,              \* what dispatch(addAlert(...)) was given, in order
    \* ---- InviteParentOrgUser --------------------------------------------
    onUserInviteSuccess, \* props.onUserInviteSuccess: TRUE when a callback is given
    isSubmitting,        \* the parent's flag behind props.setIsSubmitting
    invites              \* the inviteParentOrgUser(values) calls

mapperVars == <<response, loadState, loadError, selfSignUpConfigs, patchCall>>
screenVars == <<editingForm, showConfirmationModal>>
filterVars == <<SHOW_GOVERNANCE_CONNECTORS_FOR_SUBORGS, governanceConnectors, filterCall>>
labelVars == <<i18nResources, resolveCall>>
saveVars == <<getRequests, continueClicks, patchRequests, alerts>>
inviteVars == <<onUserInviteSuccess, isSubmitting, invites>>

vars == <<mapperVars, screenVars, filterVars, labelVars, saveVars, inviteVars>>

-----------------------------------------------------------------------------
(* Bounds of the model.                                                    *)

\* longest property list the server answers with
MaxLen == 5
\* most entries of the checkbox field's value on submit
MaxChecked == 2
\* most connectors in the list handed to the filter
MaxConns == 2
\* most properties in one listing, over all its connectors
MaxProps == 3
\* most clicks on Continue, and so most update requests, in one run
MaxRequests == 2
\* most invitations submitted in one run
MaxInvites == 2

-----------------------------------------------------------------------------
(* Self registration API key constants.                                    *)

SELF_REGISTRATION_ENABLE == "SelfRegistration.Enable"
ACCOUNT_LOCK_ON_CREATION == "SelfRegistration.LockOnCreation"
NOTIFICATION_INTERNALLY_MANAGED == "SelfRegistration.Notification.InternallyManage"
RE_CAPTCHA == "SelfRegistration.ReCaptcha"
VERIFICATION_CODE_EXPIRY_TIME == "SelfRegistration.VerificationCode.ExpiryTime"
SMS_OTP_EXPIRY_TIME == "SelfRegistration.VerificationCode.SMSOTP.ExpiryTime"
CALLBACK_REGEX == "SelfRegistration.CallbackRegex"

\* the keys the screen shows as checkboxes, and the ones it shows as fields
BooleanFlagKeys ==
    {SELF_REGISTRATION_ENABLE, ACCOUNT_LOCK_ON_CREATION,
     NOTIFICATION_INTERNALLY_MANAGED, RE_CAPTCHA}
ScalarKeys == {VERIFICATION_CODE_EXPIRY_TIME, SMS_OTP_EXPIRY_TIME, CALLBACK_REGEX}

-----------------------------------------------------------------------------
(* JavaScript values the model needs beside strings and arrays.            *)

\* the initial state of selfSignUpConfigs: the object literal {}
EmptyConfigs == [kind |-> "empty"]

\* the object getFormValues builds from a Map that holds no value:
\* { checkboxValues: undefined, verificationCodeExpiryTime: undefined,
\*   smsOTPExpiryTime: undefined, callbackRegex: undefined }
UndefinedConfigs == [kind |-> "undefined"]

\* nothing was thrown
NoError == [kind |-> "none", reading |-> ""]

\* reading a property of undefined: `undefined.value`, `undefined.includes`.
\* The error is a TypeError; the wording of its message is the engine's and
\* is left open, `reading` is the property the code read.
TypeErrorReading(prop) == [kind |-> "TypeError", reading |-> prop]

-----------------------------------------------------------------------------
(* The load handler.                                                       *)

\* CheckboxValuesStep with the reCaptcha test written as `!== "false"`
CheckboxValuesStep_notFalse(values, property) ==
    LET v1 == IF property.name = SELF_REGISTRATION_ENABLE /\ property.value = "true"
              THEN Append(values, SELF_REGISTRATION_ENABLE) ELSE values
        v2 == IF property.name = ACCOUNT_LOCK_ON_CREATION /\ property.value = "true"
              THEN Append(v1, ACCOUNT_LOCK_ON_CREATION) ELSE v1
        v3 == IF property.name = NOTIFICATION_INTERNALLY_MANAGED /\ property.value = "true"
              THEN Append(v2, NOTIFICATION_INTERNALLY_MANAGED) ELSE v2
        v4 == IF property.name = RE_CAPTCHA /\ property.value # "false"
              THEN Append(v3, RE_CAPTCHA) ELSE v3
    IN  v4

\* CheckboxValuesStep with the reCaptcha branch pushing the key of the branch
\* it was copied from
CheckboxValuesStep_pasted(values, property) ==
    LET v1 == IF property.name = SELF_REGISTRATION_ENABLE /\ property.value = "true"
              THEN Append(values, SELF_REGISTRATION_ENABLE) ELSE values
        v2 == IF property.name = ACCOUNT_LOCK_ON_CREATION /\ property.value = "true"
              THEN Append(v1, ACCOUNT_LOCK_ON_CREATION) ELSE v1
        v3 == IF property.name = NOTIFICATION_INTERNALLY_MANAGED /\ property.value = "true"
              THEN Append(v2, NOTIFICATION_INTERNALLY_MANAGED) ELSE v2
        v4 == IF property.name = RE_CAPTCHA /\ property.value = "true"
              THEN Append(v3, NOTIFICATION_INTERNALLY_MANAGED) ELSE v3
    IN  v4

\* one pass of the callback of data.properties.map(...) over one property
CheckboxValuesStep(values, property) ==
    LET v1 == IF property.name = SELF_REGISTRATION_ENABLE /\ property.value = "true"
              THEN Append(values, SELF_REGISTRATION_ENABLE) ELSE values
        v2 == IF property.name = ACCOUNT_LOCK_ON_CREATION /\ property.value = "true"
              THEN Append(v1, ACCOUNT_LOCK_ON_CREATION) ELSE v1
        v3 == IF property.name = NOTIFICATION_INTERNALLY_MANAGED /\ property.value = "true"
              THEN Append(v2, NOTIFICATION_INTERNALLY_MANAGED) ELSE v2
        v4 == IF property.name = RE_CAPTCHA /\ property.value = "true"
              THEN Append(v3, RE_CAPTCHA) ELSE v3
    IN  v4

RECURSIVE CheckboxValuesFrom(_, _, _)
CheckboxValuesFrom(properties, i, values) ==
    IF i > Len(properties) THEN values
    ELSE CheckboxValuesFrom(properties, i + 1,
                            CheckboxValuesStep(values, properties[i]))

\* getSelfRegistrationCheckboxValues(data): values = []; data.properties.map(...)
getSelfRegistrationCheckboxValues(data) ==
    CheckboxValuesFrom(data.properties, 1, <<>>)

\* Array.prototype.find with `property => property.name == key`: the index of
\* the first match, 0 for undefined
RECURSIVE FindFrom(_, _, _)
FindFrom(properties, key, i) ==
    IF i > Len(properties) THEN 0
    ELSE IF properties[i].name = key THEN i
    ELSE FindFrom(properties, key, i + 1)

\* find returning the last property of that name instead of the first
find_last(properties, key) ==
    IF \A i \in 1..Len(properties) : properties[i].name # key THEN 0
    ELSE CHOOSE i \in 1..Len(properties) :
            /\ properties[i].name = key
            /\ \A h \in (i + 1)..Len(properties) : properties[h].name # key

find(properties, key) == FindFrom(properties, key, 1)

\* The body of the .then callback of the load effect: the checkbox values,
\* then the three `find(...).value` reads in the order of the object literal.
\* The first read of `.value` on undefined throws and nothing is stored.
LoadHandlerOutcome(resp) ==
    LET checkboxValues == getSelfRegistrationCheckboxValues(resp)
        iv == find(resp.properties, VERIFICATION_CODE_EXPIRY_TIME)
        is == find(resp.properties, SMS_OTP_EXPIRY_TIME)
        ic == find(resp.properties, CALLBACK_REGEX)
    IN  IF iv = 0 \/ is = 0 \/ ic = 0
        THEN [threw |-> TRUE, error |-> TypeErrorReading("value"),
              configs |-> EmptyConfigs]
        ELSE [threw |-> FALSE, error |-> NoError,
              configs |-> [kind |-> "configs",
                           checkboxValues |-> checkboxValues,
                           verificationCodeExpiryTime |-> resp.properties[iv].value,
                           smsOTPExpiryTime |-> resp.properties[is].value,
                           callbackRegex |-> resp.properties[ic].value]]

-----------------------------------------------------------------------------
(* The PATCH payload.                                                      *)

\* Array.prototype.includes on an array of strings
includes(array, x) == \E i \in 1..Len(array) : array[i] = x

\* PatchCallData that sends the checked flags only
PatchCallData_onlyChecked(configs) ==
    [operation |-> "UPDATE",
     properties |->
        [i \in 1..Len(configs.checkboxValues) |->
            [name |-> configs.checkboxValues[i], value |-> "true"]]
        \o << [name |-> VERIFICATION_CODE_EXPIRY_TIME,
               value |-> configs.verificationCodeExpiryTime],
              [name |-> SMS_OTP_EXPIRY_TIME,
               value |-> configs.smsOTPExpiryTime],
              [name |-> CALLBACK_REGEX,
               value |-> configs.callbackRegex] >>]

\* PatchCallData with the reCaptcha entry testing the key of the entry it was
\* copied from, and the SMS OTP entry reading the other expiry time
PatchCallData_pasted(configs) ==
    [operation |-> "UPDATE",
     properties |-> <<
        [name |-> SELF_REGISTRATION_ENABLE,
         value |-> IF includes(configs.checkboxValues, SELF_REGISTRATION_ENABLE)
                   THEN "true" ELSE "false"],
        [name |-> ACCOUNT_LOCK_ON_CREATION,
         value |-> IF includes(configs.checkboxValues, ACCOUNT_LOCK_ON_CREATION)
                   THEN "true" ELSE "false"],
        [name |-> NOTIFICATION_INTERNALLY_MANAGED,
         value |-> IF includes(configs.checkboxValues, NOTIFICATION_INTERNALLY_MANAGED)
                   THEN "true" ELSE "false"],
        [name |-> RE_CAPTCHA,
         value |-> IF includes(configs.checkboxValues, NOTIFICATION_INTERNALLY_MANAGED)
                   THEN "true" ELSE "false"],
        [name |-> VERIFICATION_CODE_EXPIRY_TIME,
         value |-> configs.verificationCodeExpiryTime],
        [name |-> SMS_OTP_EXPIRY_TIME,
         value |-> configs.verificationCodeExpiryTime],
        [name |-> CALLBACK_REGEX,
         value |-> configs.callbackRegex] >>]

\* getSelfSignUpPatchCallData(): reads the selfSignUpConfigs of the render
PatchCallData(configs) ==
    [operation |-> "UPDATE",
     properties |-> <<
        [name |-> SELF_REGISTRATION_ENABLE,
         value |-> IF includes(configs.checkboxValues, SELF_REGISTRATION_ENABLE)
                   THEN "true" ELSE "false"],
        [name |-> ACCOUNT_LOCK_ON_CREATION,
         value |-> IF includes(configs.checkboxValues, ACCOUNT_LOCK_ON_CREATION)
                   THEN "true" ELSE "false"],
        [name |-> NOTIFICATION_INTERNALLY_MANAGED,
         value |-> IF includes(configs.checkboxValues, NOTIFICATION_INTERNALLY_MANAGED)
                   THEN "true" ELSE "false"],
        [name |-> RE_CAPTCHA,
         value |-> IF includes(configs.checkboxValues, RE_CAPTCHA)
                   THEN "true" ELSE "false"],
        [name |-> VERIFICATION_CODE_EXPIRY_TIME,
         value |-> configs.verificationCodeExpiryTime],
        [name |-> SMS_OTP_EXPIRY_TIME,
         value |-> configs.smsOTPExpiryTime],
        [name |-> CALLBACK_REGEX,
         value |-> configs.callbackRegex] >>]

\* with selfSignUpConfigs still {}, or with checkboxValues undefined, the
\* first `.checkboxValues.includes` throws
getSelfSignUpPatchCallData(configs) ==
    IF configs.kind \in {"empty", "undefined"}
    THEN [threw |-> TRUE, error |-> TypeErrorReading("includes"),
          data |-> [operation |-> "UPDATE", properties |-> <<>>]]
    ELSE [threw |-> FALSE, error |-> NoError, data |-> PatchCallData(configs)]

NoPatchCall == [called |-> FALSE]

-----------------------------------------------------------------------------
(* The edit form.                                                          *)

\* the Map the Forms component hands to onSubmit, as a function of the name
FormValuesMap(checked, verification, sms, regex) ==
    ("SelfRegistrationCheckBoxes" :> checked)
        @@ (VERIFICATION_CODE_EXPIRY_TIME :> verification)
        @@ (SMS_OTP_EXPIRY_TIME :> sms)
        @@ (CALLBACK_REGEX :> regex)

\* the Map of a form whose fields hold no value: values.get(name) is
\* undefined for every name
NoFormValues == [name \in {} |-> ""]

\* getFormValues(values): values.get(name) for the four names
getFormValues(values) ==
    IF DOMAIN values = {} THEN UndefinedConfigs
    ELSE [kind |-> "configs",
          checkboxValues |-> values["SelfRegistrationCheckBoxes"],
          verificationCodeExpiryTime |-> values[VERIFICATION_CODE_EXPIRY_TIME],
          smsOTPExpiryTime |-> values[SMS_OTP_EXPIRY_TIME],
          callbackRegex |-> values[CALLBACK_REGEX]]

\* the Map onSubmit is handed when no field was edited: each Field holds its
\* value prop, selfSignUpConfigs.checkboxValues and the three scalars, which
\* are undefined as long as no configuration is stored
FormValuesOf(configs) ==
    IF configs.kind = "configs"
    THEN FormValuesMap(configs.checkboxValues, configs.verificationCodeExpiryTime,
                       configs.smsOTPExpiryTime, configs.callbackRegex)
    ELSE NoFormValues

\* the Fields declared required={ true }: the three scalar Fields
RequiredFields ==
    {VERIFICATION_CODE_EXPIRY_TIME, SMS_OTP_EXPIRY_TIME, CALLBACK_REGEX}

\* every required Field holds a value: a form with an empty required Field
\* shows its requiredErrorMessage and is not handed to onSubmit
RequiredFieldsFilled(values) ==
    \A name \in RequiredFields :
        /\ name \in DOMAIN values
        /\ values[name] # ""

-----------------------------------------------------------------------------
(* The alerts of saveSelfRegistrationConfigs.                              *)

\* the t of useTranslation(): a text is known by its key and its options;
\* <<>> when t is called with the key alone
translate(key, options) == [key |-> key, options |-> options]

UPDATE_CONFIGURATIONS_NOTIFICATIONS ==
    "views:components.serverConfigs.selfRegistration.notifications.updateConfigurations."

\* the alert of the .then callback
UpdateSuccessAlert ==
    [description |-> translate(UPDATE_CONFIGURATIONS_NOTIFICATIONS
                               \o "success.description", <<>>),
     level |-> "SUCCESS",
     message |-> translate(UPDATE_CONFIGURATIONS_NOTIFICATIONS
                           \o "success.message", <<>>)]

\* a string in a condition: the empty string is falsy, and so is a missing one
Truthy(string) == string # ""

\* the .catch callback with the detail test put first
UpdateErrorAlert_detailFirst(error) ==
    IF error.hasResponse /\ error.hasData /\ Truthy(error.detail)
    THEN [description |-> translate(UPDATE_CONFIGURATIONS_NOTIFICATIONS
                                    \o "error.description",
                                    << [description |-> error.detail] >>),
          level |-> "ERROR",
          message |-> translate(UPDATE_CONFIGURATIONS_NOTIFICATIONS
                                \o "error.message", <<>>)]
    ELSE IF ~error.hasResponse \/ error.status = 401
    THEN [description |-> translate(UPDATE_CONFIGURATIONS_NOTIFICATIONS
                                    \o "error.description", <<>>),
          level |-> "ERROR",
          message |-> translate(UPDATE_CONFIGURATIONS_NOTIFICATIONS
                                \o "error.message", <<>>)]
    ELSE [description |-> translate(UPDATE_CONFIGURATIONS_NOTIFICATIONS
                                    \o "genericError.description", <<>>),
          level |-> "ERROR",
          message |-> translate(UPDATE_CONFIGURATIONS_NOTIFICATIONS
                                \o "genericError.message", <<>>)]

\* the alert the .catch callback dispatches for an error
UpdateErrorAlert(error) ==
    IF ~error.hasResponse \/ error.status = 401
    THEN [description |-> translate(UPDATE_CONFIGURATIONS_NOTIFICATIONS
                                    \o "error.description", <<>>),
          level |-> "ERROR",
          message |-> translate(UPDATE_CONFIGURATIONS_NOTIFICATIONS
                                \o "error.message", <<>>)]
    ELSE IF error.hasResponse /\ error.hasData /\ Truthy(error.detail)
    THEN [description |-> translate(UPDATE_CONFIGURATIONS_NOTIFICATIONS
                                    \o "error.description",
                                    << [description |-> error.detail] >>),
          level |-> "ERROR",
          message |-> translate(UPDATE_CONFIGURATIONS_NOTIFICATIONS
                                \o "error.message", <<>>)]
    ELSE [description |-> translate(UPDATE_CONFIGURATIONS_NOTIFICATIONS
                                    \o "genericError.description", <<>>),
          level |-> "ERROR",
          message |-> translate(UPDATE_CONFIGURATIONS_NOTIFICATIONS
                                \o "genericError.message", <<>>)]

\* no error: the request is pending or was fulfilled
NoAxiosError == [hasResponse |-> FALSE, status |-> 0, hasData |-> FALSE, detail |-> ""]

-----------------------------------------------------------------------------
(* InviteParentOrgUser: the invitation and its alerts.                     *)

\* UsersConstants.ERROR_COLLABORATOR_USER_LIMIT_REACHED: an error code of the
\* server, set in the users constants; only its identity matters here
ERROR_COLLABORATOR_USER_LIMIT_REACHED == "ERROR_COLLABORATOR_USER_LIMIT_REACHED"

SEND_INVITE_NOTIFICATIONS == "console:manage.features.invite.notifications.sendInvite."

\* the alert of the .then callback of inviteParentOrgUser
InviteSuccessAlert ==
    [description |-> translate(SEND_INVITE_NOTIFICATIONS \o "success.description", <<>>),
     level |-> "SUCCESS",
     message |-> translate(SEND_INVITE_NOTIFICATIONS \o "success.message", <<>>)]

\* handleParentOrgUserInviteError with the description test before the test
\* of the user limit
handleParentOrgUserInviteError_descriptionFirst(error) ==
    IF ~error.hasResponse \/ error.status = 401
    THEN [description |-> translate(SEND_INVITE_NOTIFICATIONS \o "error.description", <<>>),
          level |-> "ERROR",
          message |-> translate(SEND_INVITE_NOTIFICATIONS \o "error.message", <<>>)]
    ELSE IF error.hasData /\ Truthy(error.description)
    THEN [description |-> translate(SEND_INVITE_NOTIFICATIONS \o "error.description",
                                    << [description |-> error.description] >>),
          level |-> "ERROR",
          message |-> translate(SEND_INVITE_NOTIFICATIONS \o "error.message", <<>>)]
    ELSE IF error.status = 403
            /\ error.hasData /\ error.code = ERROR_COLLABORATOR_USER_LIMIT_REACHED
    THEN [description |-> translate("extensions:manage.invite.notifications.sendInvite."
                                    \o "limitReachError.description", <<>>),
          level |-> "ERROR",
          message |-> translate("extensions:manage.invite.notifications.sendInvite."
                                \o "limitReachError.message", <<>>)]
    ELSE [description |-> translate(SEND_INVITE_NOTIFICATIONS
                                    \o "genericError.description", <<>>),
          level |-> "ERROR",
          message |-> translate(SEND_INVITE_NOTIFICATIONS \o "genericError.message", <<>>)]

\* handleParentOrgUserInviteError(error): the alert it dispatches.
\* error?.response?.data?.code and ...?.description are undefined without data.
handleParentOrgUserInviteError(error) ==
    IF ~error.hasResponse \/ error.status = 401
    THEN [description |-> translate(SEND_INVITE_NOTIFICATIONS \o "error.description", <<>>),
          level |-> "ERROR",
          message |-> translate(SEND_INVITE_NOTIFICATIONS \o "error.message", <<>>)]
    ELSE IF error.status = 403
            /\ error.hasData /\ error.code = ERROR_COLLABORATOR_USER_LIMIT_REACHED
    THEN [description |-> translate("extensions:manage.invite.notifications.sendInvite."
                                    \o "limitReachError.description", <<>>),
          level |-> "ERROR",
          message |-> translate("extensions:manage.invite.notifications.sendInvite."
                                \o "limitReachError.message", <<>>)]
    ELSE IF error.hasData /\ Truthy(error.description)
    THEN [description |-> translate(SEND_INVITE_NOTIFICATIONS \o "error.description",
                                    << [description |-> error.description] >>),
          level |-> "ERROR",
          message |-> translate(SEND_INVITE_NOTIFICATIONS \o "error.message", <<>>)]
    ELSE [description |-> translate(SEND_INVITE_NOTIFICATIONS
                                    \o "genericError.description", <<>>),
          level |-> "ERROR",
          message |-> translate(SEND_INVITE_NOTIFICATIONS \o "genericError.message", <<>>)]

\* no error: the invitation is pending or was accepted
NoInviteError ==
    [hasResponse |-> FALSE, status |-> 0, hasData |-> FALSE, code |-> "",
     description |-> ""]

\* const invite = { roles: values?.roles?.map(role => role.role.id),
\*                  username: values?.username }
UserInvite(values) ==
    [roles |-> [k \in 1..Len(values.roles) |-> values.roles[k].role.id],
     username |-> values.username]

\* what a callback of the component calls, in the order it calls it
Call(fn, args) == [fn |-> fn, args |-> args]

-----------------------------------------------------------------------------
(* GovernanceConnectorUtils.                                               *)

ACCOUNT_MANAGEMENT_CATEGORY == "QWNjb3VudCBNYW5hZ2VtZW50"
USER_ONBOARDING_CATEGORY == "VXNlciBPbmJvYXJkaW5n"
ACCOUNT_RECOVERY_CONNECTOR == "YWNjb3VudC1yZWNvdmVyeQ"
ASK_PASSWORD_CONNECTOR == "dXNlci1lbWFpbC12ZXJpZmljYXRpb24"

\* the value SHOW_GOVERNANCE_CONNECTORS_FOR_SUBORGS is initialised with
SuborgAllowListTable ==
    << [connectors |-> <<
            [friendlyName |-> "Account Recovery",
             id |-> ACCOUNT_RECOVERY_CONNECTOR,
             name |-> "account-recovery",
             properties |-> << "Recovery.Notification.Password.Enable" >>] >>,
        id |-> ACCOUNT_MANAGEMENT_CATEGORY,
        name |-> "Account Management"],
       [connectors |-> <<
            [friendlyName |-> "Ask Password",
             id |-> ASK_PASSWORD_CONNECTOR,
             name |-> "user-email-verification",
             properties |-> << "EmailVerification.Enable",
                               "EmailVerification.LockOnCreation",
                               "EmailVerification.Notification.InternallyManage",
                               "EmailVerification.ExpiryTime",
                               "EmailVerification.AskPassword.ExpiryTime",
                               "EmailVerification.AskPassword.PasswordGenerator",
                               "_url_listPurposeJITProvisioning" >>] >>,
        id |-> USER_ONBOARDING_CATEGORY,
        name |-> "User Onboarding"] >>

\* showGovernanceConnectors.filter(connector => connector.id === id)[0].properties
getGovernanceConnectorsProperties(showGovernanceConnectors, governanceConnectorId) ==
    SelectSeq(showGovernanceConnectors,
              LAMBDA connector : connector.id = governanceConnectorId)[1].properties

\* showGovernanceConnectors.forEach(connector => ids.push(connector.id))
ShowConnectorIds(showGovernanceConnectors) ==
    [i \in 1..Len(showGovernanceConnectors) |-> showGovernanceConnectors[i].id]

\* FilterProperties walking the allow-list instead of the connector's list
FilterProperties_tableOrder(properties, showProperties) ==
    LET shown == SelectSeq(showProperties,
                           LAMBDA name : \E i \in 1..Len(properties) :
                                            properties[i].name = name)
    IN  [j \in 1..Len(shown) |->
            properties[CHOOSE i \in 1..Len(properties) :
                          /\ properties[i].name = shown[j]
                          /\ \A h \in 1..(i - 1) : properties[h].name # shown[j]]]

\* connector.properties.filter(property => showProperties.includes(property.name))
FilterProperties(properties, showProperties) ==
    SelectSeq(properties, LAMBDA property : includes(showProperties, property.name))

\* FilterConnectorsFrom that keeps a connector outside the allow-list with its
\* properties emptied instead of dropping it
FilterConnectorsFrom_partial(showGovernanceConnectors, ids, heap, input, i, kept) ==
    [heap |->
        [ref \in DOMAIN heap |->
            IF ~includes(input, ref) THEN heap[ref]
            ELSE IF includes(ids, heap[ref].id)
            THEN [heap[ref] EXCEPT !.properties =
                     FilterProperties(heap[ref].properties,
                         getGovernanceConnectorsProperties(showGovernanceConnectors,
                                                           heap[ref].id))]
            ELSE [heap[ref] EXCEPT !.properties = <<>>]],
     result |-> input]

\* The callback of governanceConnectors.filter(...), run on the elements of
\* `input` in order. `heap` holds the connector objects and `input` refers to
\* them; a kept connector has its properties field assigned the filtered list.
RECURSIVE FilterConnectorsFrom(_, _, _, _, _, _)
FilterConnectorsFrom(showGovernanceConnectors, ids, heap, input, i, kept) ==
    IF i > Len(input) THEN [heap |-> heap, result |-> kept]
    ELSE LET ref == input[i]
             connector == heap[ref]
         IN  IF includes(ids, connector.id)
             THEN LET showProperties ==
                          getGovernanceConnectorsProperties(showGovernanceConnectors,
                                                            connector.id)
                      filtered == FilterProperties(connector.properties, showProperties)
                  IN  FilterConnectorsFrom(
                          showGovernanceConnectors, ids,
                          [heap EXCEPT ![ref].properties = filtered],
                          input, i + 1, Append(kept, ref))
             ELSE FilterConnectorsFrom(showGovernanceConnectors, ids, heap,
                                       input, i + 1, kept)

\* filterGovernanceConnectorCategories looking the category up by its name
filterGovernanceConnectorCategories_byName(table, governanceCategoryId, heap, input) ==
    LET matches == SelectSeq(table,
                             LAMBDA category : category.name = governanceCategoryId)
    IN  IF Len(matches) = 0
        THEN [threw |-> TRUE, error |-> TypeErrorReading("connectors"),
              heap |-> heap, result |-> <<>>, table |-> table]
        ELSE LET showGovernanceConnectors == matches[1].connectors
                 out == FilterConnectorsFrom(showGovernanceConnectors,
                                             ShowConnectorIds(showGovernanceConnectors),
                                             heap, input, 1, <<>>)
             IN  [threw |-> FALSE, error |-> NoError,
                  heap |-> out.heap, result |-> out.result, table |-> table]

\* filterGovernanceConnectorCategories narrowing the allow-list in place: the
\* matched category's connectors keep only the property names the call met on
\* an input connector of that id
filterGovernanceConnectorCategories_narrowsTable(table, governanceCategoryId, heap, input) ==
    LET matches == SelectSeq(table,
                             LAMBDA category : category.id = governanceCategoryId)
    IN  IF Len(matches) = 0
        THEN [threw |-> TRUE, error |-> TypeErrorReading("connectors"),
              heap |-> heap, result |-> <<>>, table |-> table]
        ELSE LET showGovernanceConnectors == matches[1].connectors
                 out == FilterConnectorsFrom(showGovernanceConnectors,
                                             ShowConnectorIds(showGovernanceConnectors),
                                             heap, input, 1, <<>>)
                 narrowed(connector) ==
                    [connector EXCEPT !.properties =
                        SelectSeq(connector.properties,
                                  LAMBDA name :
                                      \E i \in 1..Len(input) :
                                          /\ heap[input[i]].id = connector.id
                                          /\ \E j \in 1..Len(heap[input[i]].properties) :
                                                heap[input[i]].properties[j].name = name)]
             IN  [threw |-> FALSE, error |-> NoError,
                  heap |-> out.heap, result |-> out.result,
                  table |-> [c \in 1..Len(table) |->
                                IF table[c].id # governanceCategoryId THEN table[c]
                                ELSE [table[c] EXCEPT !.connectors =
                                         [k \in 1..Len(table[c].connectors) |->
                                             narrowed(table[c].connectors[k])]]]]

\* filterGovernanceConnectorCategories(governanceCategoryId, governanceConnectors):
\* `[0].connectors` on an empty match list reads a property of undefined.
filterGovernanceConnectorCategories(table, governanceCategoryId, heap, input) ==
    LET matches == SelectSeq(table,
                             LAMBDA category : category.id = governanceCategoryId)
    IN  IF Len(matches) = 0
        THEN [threw |-> TRUE, error |-> TypeErrorReading("connectors"),
              heap |-> heap, result |-> <<>>, table |-> table]
        ELSE LET showGovernanceConnectors == matches[1].connectors
                 out == FilterConnectorsFrom(showGovernanceConnectors,
                                             ShowConnectorIds(showGovernanceConnectors),
                                             heap, input, 1, <<>>)
             IN  [threw |-> FALSE, error |-> NoError,
                  heap |-> out.heap, result |-> out.result, table |-> table]

NoFilterCall ==
    [called |-> FALSE, categoryId |-> "", input |-> <<>>, before |-> <<>>,
     threw |-> FALSE, error |-> NoError, result |-> <<>>]

-----------------------------------------------------------------------------
(* lodash camelCase, on strings of ASCII characters.                       *)

LowerCaseLetters == "abcdefghijklmnopqrstuvwxyz"
UpperCaseLetters == "ABCDEFGHIJKLMNOPQRSTUVWXYZ"
DigitCharacters == "0123456789"

charAt(string, i) == SubSeq(string, i, i)

\* the character classes of the word pattern: rsLower, rsUpper, rsDigits and,
\* for what is left of ASCII, rsBreak
rsLower == {charAt(LowerCaseLetters, i) : i \in 1..Len(LowerCaseLetters)}
rsUpper == {charAt(UpperCaseLetters, i) : i \in 1..Len(UpperCaseLetters)}
rsDigits == {charAt(DigitCharacters, i) : i \in 1..Len(DigitCharacters)}
isBreak(c) == c \notin rsLower /\ c \notin rsUpper /\ c \notin rsDigits

\* each letter with its other case
LowerOf ==
    [c \in rsUpper |->
        charAt(LowerCaseLetters,
               CHOOSE i \in 1..Len(UpperCaseLetters) : charAt(UpperCaseLetters, i) = c)]
UpperOf ==
    [c \in rsLower |->
        charAt(UpperCaseLetters,
               CHOOSE i \in 1..Len(LowerCaseLetters) : charAt(LowerCaseLetters, i) = c)]

toLowerChar(c) == IF c \in rsUpper THEN LowerOf[c] ELSE c
toUpperChar(c) == IF c \in rsLower THEN UpperOf[c] ELSE c

RECURSIVE toLowerCase(_)
toLowerCase(string) ==
    IF string = "" THEN ""
    ELSE toLowerChar(charAt(string, 1)) \o toLowerCase(SubSeq(string, 2, Len(string)))

upperFirst(string) ==
    IF string = "" THEN ""
    ELSE toUpperChar(charAt(string, 1)) \o SubSeq(string, 2, Len(string))

\* capitalize(word) = upperFirst(word.toLowerCase())
capitalize(string) == upperFirst(toLowerCase(string))

\* string.replace(reApos, ''), for the ASCII apostrophe
RECURSIVE removeApostrophes(_)
removeApostrophes(string) ==
    IF string = "" THEN ""
    ELSE (IF charAt(string, 1) = "'" THEN "" ELSE charAt(string, 1))
            \o removeApostrophes(SubSeq(string, 2, Len(string)))

\* the last index of the run of characters of one class that starts at i
\* (i - 1 when the character at i is not of the class)
RECURSIVE RunEnd(_, _, _)
RunEnd(string, i, class) ==
    IF i <= Len(string) /\ charAt(string, i) \in class
    THEN RunEnd(string, i + 1, class)
    ELSE i - 1

\* rsOrdLower and rsOrdUpper at the run of digits that ends at d:
\* \d*(?:1st|2nd|3rd|(?![123])\dth)(?=\b|[A-Z_]) and its upper-case form.
\* The digit of the ordinal is the last digit of the run; the lookahead fails
\* on a following digit or letter of the same case.
isOrdinal(string, d, st, nd, rd, th, sameCase) ==
    /\ d + 2 <= Len(string)
    /\ LET digit == charAt(string, d)
           suffix == SubSeq(string, d + 1, d + 2)
       IN  \/ digit = "1" /\ suffix = st
           \/ digit = "2" /\ suffix = nd
           \/ digit = "3" /\ suffix = rd
           \/ digit \notin {"1", "2", "3"} /\ suffix = th
    /\ \/ d + 3 > Len(string)
       \/ /\ charAt(string, d + 3) \notin sameCase
          /\ charAt(string, d + 3) \notin rsDigits

\* Where the word that starts at i ends, by the alternatives of the word
\* pattern in their order: an optional capital and lower-case letters; a run
\* of capitals up to a break, the end, or the capital that starts a
\* capitalised word; an ordinal (1ST, 2nd, 10th), kept whole; a run of digits.
WordEnd(string, i) ==
    LET c == charAt(string, i)
    IN  IF c \in rsDigits
        THEN LET d == RunEnd(string, i, rsDigits)
             IN  IF \/ isOrdinal(string, d, "ST", "ND", "RD", "TH", rsUpper)
                    \/ isOrdinal(string, d, "st", "nd", "rd", "th", rsLower)
                 THEN d + 2
                 ELSE d
        ELSE IF c \in rsLower THEN RunEnd(string, i, rsLower)
        ELSE LET u == RunEnd(string, i, rsUpper)
             IN  IF u = i THEN RunEnd(string, i + 1, rsLower)
                 ELSE IF u < Len(string) /\ charAt(string, u + 1) \in rsLower
                 THEN u - 1
                 ELSE u

\* words(string): the matches of the word pattern, left to right
RECURSIVE WordsFrom(_, _)
WordsFrom(string, i) ==
    IF i > Len(string) THEN <<>>
    ELSE IF isBreak(charAt(string, i)) THEN WordsFrom(string, i + 1)
    ELSE LET e == WordEnd(string, i)
         IN  <<SubSeq(string, i, e)>> \o WordsFrom(string, e + 1)

words(string) == WordsFrom(string, 1)

\* the reduce of camelCase: result + (index ? capitalize(word) : word)
RECURSIVE CamelCaseFrom(_, _, _)
CamelCaseFrom(ws, index, result) ==
    IF index > Len(ws) THEN result
    ELSE CamelCaseFrom(ws, index + 1,
                       result \o (IF index > 1 THEN capitalize(ws[index])
                                  ELSE toLowerCase(ws[index])))

camelCase(string) == CamelCaseFrom(words(removeApostrophes(string)), 1, "")

-----------------------------------------------------------------------------
(* GovernanceConnectorUtils.resolveFieldLabel and resolveFieldHint.        *)

\* I18n.instance.exists(key)
exists(resources, key) == key \in DOMAIN resources

\* I18n.instance.t(key): the translation, or the key itself when none exists
t(resources, key) == IF exists(resources, key) THEN resources[key] ELSE key

\* the lookup key both functions build, up to its last segment
FieldKey(category, name, segment) ==
    "console:manage.features.governanceConnectors.connectorCategories."
        \o camelCase(category) \o ".connectors." \o camelCase(name)
        \o ".properties." \o camelCase(name) \o segment

\* resolveFieldLabel without the exists test: the label is always t(key)
resolveFieldLabel_alwaysTranslates(resources, category, name, displayName) ==
    LET fieldLabelKey == FieldKey(category, name, ".label")
    IN  [key |-> fieldLabelKey, result |-> t(resources, fieldLabelKey)]

\* resolveFieldLabel(category, name, displayName)
resolveFieldLabel(resources, category, name, displayName) ==
    LET fieldLabelKey == FieldKey(category, name, ".label")
    IN  [key |-> fieldLabelKey,
         result |-> IF exists(resources, fieldLabelKey)
                    THEN t(resources, fieldLabelKey)
                    ELSE displayName]

\* resolveFieldHint(category, name, description)
resolveFieldHint(resources, category, name, description) ==
    LET fieldHintKey == FieldKey(category, name, ".hint")
    IN  [key |-> fieldHintKey,
         result |-> IF exists(resources, fieldHintKey)
                    THEN t(resources, fieldHintKey)
                    ELSE description]

NoResolveCall ==
    [called |-> FALSE, fn |-> "", category |-> "", name |-> "", fallback |-> "",
     key |-> "", result |-> ""]

-----------------------------------------------------------------------------
(* Inputs.                                                                 *)

\* the properties a response is made of: every flag on, one flag off, one flag
\* with a value that is neither, one scalar with two values (one of them "true")
ResponseProperties ==
    [name : BooleanFlagKeys, value : {"true"}]
        \cup {[name |-> ACCOUNT_LOCK_ON_CREATION, value |-> "false"],
              [name |-> RE_CAPTCHA, value |-> "TRUE"],
              [name |-> VERIFICATION_CODE_EXPIRY_TIME, value |-> "1440"],
              [name |-> VERIFICATION_CODE_EXPIRY_TIME, value |-> "true"],
              [name |-> SMS_OTP_EXPIRY_TIME, value |-> "1"],
              [name |-> CALLBACK_REGEX, value |-> ".*"]}

\* the property lists of n entries
ResponsePropertyLists(n) == [1..n -> ResponseProperties]

NoResponse == [properties |-> <<>>]

\* what the checkbox field may hold on submit: nothing, each key alone, a
\* foreign name twice, two keys, three, all four; of at most MaxChecked names
CheckboxFieldValues ==
    {c \in {<<>>,
            << SELF_REGISTRATION_ENABLE >>,
            << ACCOUNT_LOCK_ON_CREATION >>,
            << NOTIFICATION_INTERNALLY_MANAGED >>,
            << RE_CAPTCHA >>,
            << "SelfRegistration.Unknown", "SelfRegistration.Unknown" >>,
            << RE_CAPTCHA, SELF_REGISTRATION_ENABLE >>,
            << SELF_REGISTRATION_ENABLE, ACCOUNT_LOCK_ON_CREATION,
               NOTIFICATION_INTERNALLY_MANAGED >>,
            << SELF_REGISTRATION_ENABLE, ACCOUNT_LOCK_ON_CREATION,
               NOTIFICATION_INTERNALLY_MANAGED, RE_CAPTCHA >>} :
        Len(c) <= MaxChecked}

\* the forms submitted: each selection with usual scalars and with a negative
\* expiry time, an expiry time of zero, and a regex that is none
SubmittedValues ==
    {FormValuesMap(c, "1440", "1", ".*") : c \in CheckboxFieldValues}
        \cup {FormValuesMap(c, "-1", "0", "[") : c \in CheckboxFieldValues}

\* the form submitted as it is shown: no submission as long as a required
\* Field of it is empty, as all three are while no configuration is stored
ShownFormValues ==
    {values \in {FormValuesOf(selfSignUpConfigs)} : RequiredFieldsFilled(values)}

\* connectors as the remote listing delivers them
ConnectorPropertyNames ==
    {"Recovery.Notification.Password.Enable",
     "EmailVerification.Enable",
     "EmailVerification.ExpiryTime"}

ConnectorProperties == [name : ConnectorPropertyNames, value : {"true"}]

\* the connectors of the listing: each is allow-listed in one category and
\* foreign to the other
ConnectorIds == {ACCOUNT_RECOVERY_CONNECTOR, ASK_PASSWORD_CONNECTOR}

\* the connectors with k properties
ConnectorsWith(k) ==
    [id : ConnectorIds, properties : [1..k -> ConnectorProperties]]

\* the listings of n connectors with at most `budget` properties between them
RECURSIVE ConnectorLists(_, _)
ConnectorLists(n, budget) ==
    IF n = 0 THEN {<<>>}
    ELSE UNION {{Append(listing, connector) :
                    listing \in ConnectorLists(n - 1, budget - k),
                    connector \in ConnectorsWith(k)} : k \in 0..budget}

CategoryIds ==
    {ACCOUNT_MANAGEMENT_CATEGORY, USER_ONBOARDING_CATEGORY,
     "account-recovery", "not-a-real-category"}

\* the responses the screen is loaded with: the complete one, one without
\* the callback regex, an empty one
ScreenResponses ==
    {[properties |-> << [name |-> SELF_REGISTRATION_ENABLE, value |-> "true"],
                        [name |-> ACCOUNT_LOCK_ON_CREATION, value |-> "false"],
                        [name |-> VERIFICATION_CODE_EXPIRY_TIME, value |-> "1440"],
                        [name |-> SMS_OTP_EXPIRY_TIME, value |-> "1"],
                        [name |-> CALLBACK_REGEX, value |-> ".*"] >>],
     [properties |-> << [name |-> SELF_REGISTRATION_ENABLE, value |-> "true"],
                        [name |-> VERIFICATION_CODE_EXPIRY_TIME, value |-> "1440"],
                        [name |-> SMS_OTP_EXPIRY_TIME, value |-> "1"] >>],
     NoResponse}

\* the forms submitted on the screen: two that were filled in, and the form
\* as it is shown once a configuration is stored
ScreenSubmittedValues ==
    {FormValuesMap(<< RE_CAPTCHA >>, "60", "5", ".*"),
     FormValuesMap(<<>>, "1440", "1", "^$")}
        \cup ShownFormValues

\* The errors an update request is rejected with. `detail` is
\* error.response.data.detail, "" when it is missing or empty; status and
\* detail mean nothing without a response, detail nothing without data.
PatchErrors ==
    {NoAxiosError,
     [hasResponse |-> TRUE, status |-> 401, hasData |-> TRUE, detail |-> "Unauthorized"],
     [hasResponse |-> TRUE, status |-> 400, hasData |-> TRUE,
      detail |-> "Invalid expiry time"],
     [hasResponse |-> TRUE, status |-> 400, hasData |-> TRUE, detail |-> ""],
     [hasResponse |-> TRUE, status |-> 500, hasData |-> FALSE, detail |-> ""]}

\* the values of the invitation form: a user name and the chosen role options
RoleOption(id, displayName) ==
    [key |-> id, label |-> displayName,
     role |-> [id |-> id, displayName |-> displayName]]

InviteFormValues ==
    {[username |-> "bob",
      roles |-> << RoleOption("r2", "Viewer"), RoleOption("r1", "Editor") >>]}

\* The errors an invitation is rejected with. `code` and `description` are
\* error.response.data.code and .description, "" when missing; status, code
\* and description mean nothing without a response, the last two nothing
\* without data.
InviteErrors ==
    {NoInviteError,
     [hasResponse |-> TRUE, status |-> 401, hasData |-> TRUE,
      code |-> ERROR_COLLABORATOR_USER_LIMIT_REACHED, description |-> "Unauthorized"],
     [hasResponse |-> TRUE, status |-> 403, hasData |-> TRUE,
      code |-> ERROR_COLLABORATOR_USER_LIMIT_REACHED, description |-> "Limit reached"],
     [hasResponse |-> TRUE, status |-> 403, hasData |-> TRUE,
      code |-> "OTHER-10001", description |-> "Forbidden"],
     [hasResponse |-> TRUE, status |-> 400, hasData |-> TRUE,
      code |-> ERROR_COLLABORATOR_USER_LIMIT_REACHED, description |-> "User not found"],
     [hasResponse |-> TRUE, status |-> 400, hasData |-> TRUE,
      code |-> "OTHER-10002", description |-> ""],
     [hasResponse |-> TRUE, status |-> 500, hasData |-> FALSE,
      code |-> "", description |-> ""]}

\* categories, property names and fallbacks the label functions are called
\* with
LabelCategories == {"account-recovery", "Account Management", "user_onboarding"}
LabelNames ==
    {"EmailVerification.Enable", "Recovery.Notification.Password.Enable",
     "_url_listPurposeJITProvisioning"}
LabelFallbacks == {"Enable", ""}

\* entries a translation bundle may hold for these: labels and hints under
\* camel-cased segments, and one label filed under the names as they come
TranslationEntries ==
    ("console:manage.features.governanceConnectors.connectorCategories."
        \o "accountRecovery.connectors.emailVerificationEnable"
        \o ".properties.emailVerificationEnable.label"
        :> "Enable email verification")
    @@ ("console:manage.features.governanceConnectors.connectorCategories."
        \o "accountRecovery.connectors.emailVerificationEnable"
        \o ".properties.emailVerificationEnable.hint"
        :> "Users must verify their email address.")
    @@ ("console:manage.features.governanceConnectors.connectorCategories."
        \o "account-recovery.connectors.EmailVerification.Enable"
        \o ".properties.EmailVerification.Enable.label"
        :> "Enable (filed under the raw names)")
    @@ ("console:manage.features.governanceConnectors.connectorCategories."
        \o "accountManagement.connectors.recoveryNotificationPasswordEnable"
        \o ".properties.recoveryNotificationPasswordEnable.label"
        :> "Notification based password recovery")
    @@ ("console:manage.features.governanceConnectors.connectorCategories."
        \o "userOnboarding.connectors.urlListPurposeJitProvisioning"
        \o ".properties.urlListPurposeJitProvisioning.hint"
        :> "Manage JIT provisioning purposes")

\* the bundles: any part of these entries may be loaded
TranslationBundles ==
    {[key \in keys |-> TranslationEntries[key]] :
        keys \in SUBSET DOMAIN TranslationEntries}

-----------------------------------------------------------------------------
(* Initial values of the three groups of variables.                        *)

InitMapperVars ==
    /\ loadState = "pending"
    /\ loadError = NoError
    /\ selfSignUpConfigs = EmptyConfigs
    /\ patchCall = NoPatchCall

InitScreenVars ==
    /\ editingForm = FALSE
    /\ showConfirmationModal = FALSE

InitFilterVars ==
    /\ SHOW_GOVERNANCE_CONNECTORS_FOR_SUBORGS = SuborgAllowListTable
    /\ governanceConnectors = <<>>
    /\ filterCall = NoFilterCall

InitLabelVars ==
    /\ i18nResources = <<>>
    /\ resolveCall = NoResolveCall

\* the component is mounted: its effect has asked for the configuration once
InitSaveVars ==
    /\ getRequests = 1
    /\ continueClicks = 0
    /\ patchRequests = <<>>
    /\ alerts = <<>>

InitInviteVars ==
    /\ onUserInviteSuccess = TRUE
    /\ isSubmitting = FALSE
    /\ invites = <<>>

\* the units a specification leaves aside, as they are before any call
InitOtherVars == InitLabelVars /\ InitSaveVars /\ InitInviteVars

-----------------------------------------------------------------------------
(* The handlers of the self-registration screen.                           *)

\* useEffect(() => { getSelfSignUpConfigurations().then((response) => ...) }, [])
LoadConfigurations ==
    /\ loadState = "pending"
    /\ LET out == LoadHandlerOutcome(response)
       IN  /\ loadState' = IF out.threw THEN "threw" ELSE "resolved"
           /\ loadError' = out.error
           /\ selfSignUpConfigs' = IF out.threw THEN selfSignUpConfigs ELSE out.configs
    /\ UNCHANGED <<response, patchCall, screenVars, filterVars, labelVars, saveVars, inviteVars>>

\* showFormEditView(USER_SELF_REGISTRATION_FORM_IDENTIFIER): the section's
\* primary action
showFormEditView ==
    /\ editingForm' = TRUE
    /\ UNCHANGED <<mapperVars, showConfirmationModal, filterVars, labelVars, saveVars, inviteVars>>

\* hideFormEditView(USER_SELF_REGISTRATION_FORM_IDENTIFIER): the Cancel button
\* of the form, which is rendered in edit view only
hideFormEditView ==
    /\ editingForm
    /\ editingForm' = FALSE
    /\ UNCHANGED <<mapperVars, showConfirmationModal, filterVars, labelVars, saveVars, inviteVars>>

\* Forms.onSubmit: setSelfSignUpConfigs(getFormValues(values)); handleSubmit().
\* The form is rendered in edit view only, and onSubmit is called with a form
\* whose required Fields are filled.
SubmitForm(values) ==
    /\ editingForm
    /\ RequiredFieldsFilled(values)
    /\ selfSignUpConfigs' = getFormValues(values)
    /\ showConfirmationModal' = TRUE
    /\ patchCall' = NoPatchCall   \* no patch data built yet for this submission
    /\ UNCHANGED <<response, loadState, loadError, editingForm, filterVars, labelVars, saveVars, inviteVars>>

\* the Cancel button wired to the handler of the Continue button
handleConfirmationModalClose_saves ==
    /\ showConfirmationModal
    /\ Len(patchRequests) < MaxRequests
    /\ showConfirmationModal' = FALSE
    /\ patchRequests' = Append(patchRequests,
                               [data |-> PatchCallData(selfSignUpConfigs),
                                state |-> "pending", error |-> NoAxiosError])
    /\ UNCHANGED <<mapperVars, editingForm, filterVars, labelVars, getRequests,
                   continueClicks, alerts, inviteVars>>

\* handleConfirmationModalClose: the modal's cancel button and onClose
handleConfirmationModalClose ==
    /\ showConfirmationModal
    /\ showConfirmationModal' = FALSE
    /\ UNCHANGED <<mapperVars, editingForm, filterVars, labelVars, saveVars, inviteVars>>

\* The modal's Continue button: saveSelfRegistrationConfigs up to the call of
\* updateSelfSignUpConfigurations(data). When getSelfSignUpPatchCallData
\* throws, the handler ends there and no request is made.
saveSelfRegistrationConfigs ==
    /\ showConfirmationModal
    /\ continueClicks < MaxRequests
    /\ continueClicks' = continueClicks + 1
    /\ LET out == getSelfSignUpPatchCallData(selfSignUpConfigs)
       IN  /\ patchCall' = [called |-> TRUE, configs |-> selfSignUpConfigs,
                            threw |-> out.threw, error |-> out.error,
                            data |-> out.data]
           /\ patchRequests' =
                 IF out.threw THEN patchRequests
                 ELSE Append(patchRequests,
                             [data |-> out.data, state |-> "pending",
                              error |-> NoAxiosError])
    /\ UNCHANGED <<response, loadState, loadError, selfSignUpConfigs, screenVars,
                   filterVars, labelVars, getRequests, alerts, inviteVars>>

-----------------------------------------------------------------------------
(* The property mapper: the response arrives and the load handler runs on  *)
(* it.                                                                     *)

\* the request of the load effect is under way and will resolve with `response`
InitMapper ==
    /\ \E n \in 0..MaxLen : response \in [properties : ResponsePropertyLists(n)]
    /\ InitMapperVars /\ InitScreenVars /\ InitFilterVars /\ InitOtherVars

NextMapper == LoadConfigurations

SpecMapper == InitMapper /\ [][NextMapper]_vars

-----------------------------------------------------------------------------
(* The round trip: a response that names each scalar key once is loaded,   *)
(* the form, which shows what the load handler stored, is opened and       *)
(* submitted as it is, and the update is confirmed.                        *)

InitRoundTrip ==
    /\ \E n \in 0..MaxLen :
          response \in
              {r \in [properties : ResponsePropertyLists(n)] :
                  \A key \in ScalarKeys :
                      Cardinality({i \in 1..n : r.properties[i].name = key}) = 1}
    /\ InitMapperVars /\ InitScreenVars /\ InitFilterVars /\ InitOtherVars

NextRoundTrip ==
    \/ LoadConfigurations
    \/ showFormEditView
    \/ \E values \in ShownFormValues : SubmitForm(values)
    \/ saveSelfRegistrationConfigs

SpecRoundTrip == InitRoundTrip /\ [][NextRoundTrip]_vars

-----------------------------------------------------------------------------
(* The edit form: open it, fill it in and submit it, confirm or cancel.    *)

InitForm ==
    /\ response = NoResponse
    /\ InitMapperVars /\ InitScreenVars /\ InitFilterVars /\ InitOtherVars

NextForm ==
    \/ showFormEditView
    \/ hideFormEditView
    \/ \E values \in SubmittedValues : SubmitForm(values)
    \/ handleConfirmationModalClose
    \/ saveSelfRegistrationConfigs

SpecForm == InitForm /\ [][NextForm]_vars

-----------------------------------------------------------------------------
(* The connector filter: the caller holds a listing of connectors and      *)
(* calls the filter on it, or on what an earlier call returned.            *)

\* GovernanceConnectorUtils.filterGovernanceConnectorCategories(id, input)
FilterCategories(governanceCategoryId, input) ==
    LET out == filterGovernanceConnectorCategories(
                   SHOW_GOVERNANCE_CONNECTORS_FOR_SUBORGS, governanceCategoryId,
                   governanceConnectors, input)
    IN  /\ governanceConnectors' = out.heap
        /\ SHOW_GOVERNANCE_CONNECTORS_FOR_SUBORGS' = out.table
        /\ filterCall' = [called |-> TRUE, categoryId |-> governanceCategoryId,
                          input |-> input, before |-> governanceConnectors,
                          threw |-> out.threw, error |-> out.error,
                          result |-> out.result]
        /\ UNCHANGED <<mapperVars, screenVars, labelVars, saveVars, inviteVars>>

\* every connector the caller holds, in the listing's order
AllConnectors == [i \in 1..Len(governanceConnectors) |-> i]

\* the caller holds the connectors the remote listing delivered
InitFilter ==
    /\ response = NoResponse
    /\ InitMapperVars /\ InitScreenVars
    /\ SHOW_GOVERNANCE_CONNECTORS_FOR_SUBORGS = SuborgAllowListTable
    /\ \E n \in 0..MaxConns : governanceConnectors \in ConnectorLists(n, MaxProps)
    /\ filterCall = NoFilterCall
    /\ InitOtherVars

NextFilter ==
    \/ \E id \in CategoryIds : FilterCategories(id, AllConnectors)
    \/ \E id \in CategoryIds :
          /\ filterCall.called
          /\ ~filterCall.threw
          /\ FilterCategories(id, filterCall.result)

SpecFilter == InitFilter /\ [][NextFilter]_vars

-----------------------------------------------------------------------------
(* The screen: the configuration is loaded, the form is submitted and      *)
(* confirmed, and the update request is answered.                          *)

\* the .then callback with the form left in edit view
PatchFulfilled_keepsForm(i) ==
    /\ patchRequests[i].state = "pending"
    /\ patchRequests' = [patchRequests EXCEPT ![i].state = "fulfilled"]
    /\ alerts' = Append(alerts, UpdateSuccessAlert)
    /\ showConfirmationModal' = FALSE
    /\ UNCHANGED <<mapperVars, editingForm, filterVars, labelVars, getRequests,
                   continueClicks, inviteVars>>

\* the request is fulfilled and the .then callback runs: the success alert,
\* handleConfirmationModalClose(), hideFormEditView(...)
PatchFulfilled(i) ==
    /\ patchRequests[i].state = "pending"
    /\ patchRequests' = [patchRequests EXCEPT ![i].state = "fulfilled"]
    /\ alerts' = Append(alerts, UpdateSuccessAlert)
    /\ showConfirmationModal' = FALSE
    /\ editingForm' = FALSE
    /\ UNCHANGED <<mapperVars, filterVars, labelVars, getRequests,
                   continueClicks, inviteVars>>

\* the request is rejected with `error` and the .catch callback runs
PatchRejected(i, error) ==
    /\ patchRequests[i].state = "pending"
    /\ patchRequests' = [patchRequests EXCEPT ![i].state = "rejected",
                                              ![i].error = error]
    /\ alerts' = Append(alerts, UpdateErrorAlert(error))
    /\ UNCHANGED <<mapperVars, screenVars, filterVars, labelVars, getRequests,
                   continueClicks, inviteVars>>

\* the component is mounted and the request of its effect is under way
InitScreen ==
    /\ response \in ScreenResponses
    /\ InitMapperVars /\ InitScreenVars /\ InitFilterVars /\ InitOtherVars

NextScreen ==
    \/ LoadConfigurations
    \/ showFormEditView
    \/ hideFormEditView
    \/ \E values \in ScreenSubmittedValues : SubmitForm(values)
    \/ handleConfirmationModalClose
    \/ saveSelfRegistrationConfigs
    \/ \E i \in DOMAIN patchRequests : PatchFulfilled(i)
    \/ \E i \in DOMAIN patchRequests, error \in PatchErrors : PatchRejected(i, error)

SpecScreen == InitScreen /\ [][NextScreen]_vars

-----------------------------------------------------------------------------
(* The field labels: a translation bundle is loaded and the label and hint *)
(* of a connector property are resolved against it.                        *)

\* GovernanceConnectorUtils.resolveFieldLabel(category, name, displayName)
ResolveFieldLabel(category, name, displayName) ==
    LET out == resolveFieldLabel(i18nResources, category, name, displayName)
    IN  /\ resolveCall' = [called |-> TRUE, fn |-> "resolveFieldLabel",
                           category |-> category, name |-> name,
                           fallback |-> displayName,
                           key |-> out.key, result |-> out.result]
        /\ UNCHANGED <<mapperVars, screenVars, filterVars, i18nResources,
                       saveVars, inviteVars>>

\* GovernanceConnectorUtils.resolveFieldHint(category, name, description)
ResolveFieldHint(category, name, description) ==
    LET out == resolveFieldHint(i18nResources, category, name, description)
    IN  /\ resolveCall' = [called |-> TRUE, fn |-> "resolveFieldHint",
                           category |-> category, name |-> name,
                           fallback |-> description,
                           key |-> out.key, result |-> out.result]
        /\ UNCHANGED <<mapperVars, screenVars, filterVars, i18nResources,
                       saveVars, inviteVars>>

InitLabels ==
    /\ response = NoResponse
    /\ InitMapperVars /\ InitScreenVars /\ InitFilterVars
    /\ i18nResources \in TranslationBundles
    /\ resolveCall = NoResolveCall
    /\ InitSaveVars /\ InitInviteVars

NextLabels ==
    \/ \E category \in LabelCategories, name \in LabelNames,
          displayName \in LabelFallbacks :
          ResolveFieldLabel(category, name, displayName)
    \/ \E category \in LabelCategories, name \in LabelNames,
          description \in LabelFallbacks :
          ResolveFieldHint(category, name, description)

SpecLabels == InitLabels /\ [][NextLabels]_vars

-----------------------------------------------------------------------------
(* The invitation wizard: the form is submitted, the request is answered,  *)
(* and the callbacks of the promise chain run one after the other. Each    *)
(* callback is a job of its own, so the jobs of two invitations may        *)
(* interleave.                                                             *)

\* inviteParentOrgUser(values) up to the call of sendParentOrgUserInvite
inviteParentOrgUser(values) ==
    /\ Len(invites) < MaxInvites
    /\ isSubmitting' = TRUE
    /\ invites' = Append(invites,
                         [pc |-> "sent", outcome |-> "pending",
                          error |-> NoInviteError,
                          calls |-> << Call("setIsSubmitting", << TRUE >>),
                                       Call("sendParentOrgUserInvite",
                                            << UserInvite(values) >>) >>])
    /\ UNCHANGED <<mapperVars, screenVars, filterVars, labelVars, saveVars,
                   onUserInviteSuccess>>

\* the server accepts the invitation: the .then callback is queued
InviteFulfilled(i) ==
    /\ invites[i].pc = "sent"
    /\ invites' = [invites EXCEPT ![i].pc = "then", ![i].outcome = "fulfilled"]
    /\ UNCHANGED <<mapperVars, screenVars, filterVars, labelVars, saveVars,
                   onUserInviteSuccess, isSubmitting>>

\* the request fails with `error`: the .catch callback is queued
InviteRejected(i, error) ==
    /\ invites[i].pc = "sent"
    /\ invites' = [invites EXCEPT ![i].pc = "catch", ![i].outcome = "rejected",
                                  ![i].error = error]
    /\ UNCHANGED <<mapperVars, screenVars, filterVars, labelVars, saveVars,
                   onUserInviteSuccess, isSubmitting>>

\* the .then callback closing the wizard before it reports the success
InviteThen_closesFirst(i) ==
    /\ invites[i].pc = "then"
    /\ invites' =
          [invites EXCEPT
              ![i].pc = "finally",
              ![i].calls =
                  @ \o << Call("addAlert", << InviteSuccessAlert >>),
                          Call("closeWizard", <<>>) >>
                    \o (IF onUserInviteSuccess
                        THEN << Call("onUserInviteSuccess", <<>>) >>
                        ELSE <<>>)]
    /\ UNCHANGED <<mapperVars, screenVars, filterVars, labelVars, saveVars,
                   onUserInviteSuccess, isSubmitting>>

\* the .then callback: the success alert,
\* onUserInviteSuccess && onUserInviteSuccess(), closeWizard()
InviteThen(i) ==
    /\ invites[i].pc = "then"
    /\ invites' =
          [invites EXCEPT
              ![i].pc = "finally",
              ![i].calls =
                  @ \o << Call("addAlert", << InviteSuccessAlert >>) >>
                    \o (IF onUserInviteSuccess
                        THEN << Call("onUserInviteSuccess", <<>>) >>
                        ELSE <<>>)
                    \o << Call("closeWizard", <<>>) >>]
    /\ UNCHANGED <<mapperVars, screenVars, filterVars, labelVars, saveVars,
                   onUserInviteSuccess, isSubmitting>>

\* the .catch callback: handleParentOrgUserInviteError(error)
InviteCatch(i) ==
    /\ invites[i].pc = "catch"
    /\ invites' =
          [invites EXCEPT
              ![i].pc = "finally",
              ![i].calls =
                  @ \o << Call("addAlert",
                               << handleParentOrgUserInviteError(invites[i].error) >>) >>]
    /\ UNCHANGED <<mapperVars, screenVars, filterVars, labelVars, saveVars,
                   onUserInviteSuccess, isSubmitting>>

\* the closing calls made at the end of the .then callback only
InviteFinally_afterThenOnly(i) ==
    /\ invites[i].pc = "finally"
    /\ invites[i].outcome = "fulfilled"
    /\ invites' =
          [invites EXCEPT
              ![i].pc = "done",
              ![i].calls = @ \o << Call("closeWizard", <<>>),
                                   Call("setIsSubmitting", << FALSE >>) >>]
    /\ isSubmitting' = FALSE
    /\ UNCHANGED <<mapperVars, screenVars, filterVars, labelVars, saveVars,
                   onUserInviteSuccess>>

\* the .finally callback: closeWizard(); setIsSubmitting(false)
InviteFinally(i) ==
    /\ invites[i].pc = "finally"
    /\ invites' =
          [invites EXCEPT
              ![i].pc = "done",
              ![i].calls = @ \o << Call("closeWizard", <<>>),
                                   Call("setIsSubmitting", << FALSE >>) >>]
    /\ isSubmitting' = FALSE
    /\ UNCHANGED <<mapperVars, screenVars, filterVars, labelVars, saveVars,
                   onUserInviteSuccess>>

\* the wizard is open; its parent may or may not have given onUserInviteSuccess
InitInvite ==
    /\ response = NoResponse
    /\ InitMapperVars /\ InitScreenVars /\ InitFilterVars
    /\ InitLabelVars /\ InitSaveVars
    /\ onUserInviteSuccess \in BOOLEAN
    /\ isSubmitting = FALSE
    /\ invites = <<>>

NextInvite ==
    \/ \E values \in InviteFormValues : inviteParentOrgUser(values)
    \/ \E i \in DOMAIN invites : InviteFulfilled(i)
    \/ \E i \in DOMAIN invites, error \in InviteErrors : InviteRejected(i, error)
    \/ \E i \in DOMAIN invites : InviteThen(i)
    \/ \E i \in DOMAIN invites : InviteCatch(i)
    \/ \E i \in DOMAIN invites : InviteFinally(i)

\* a queued callback of a settled promise is run: the job queue is emptied
\* after every task
InviteFairness ==
    \A i \in 1..MaxInvites :
        /\ WF_vars(i \in DOMAIN invites /\ InviteThen(i))
        /\ WF_vars(i \in DOMAIN invites /\ InviteCatch(i))
        /\ WF_vars(i \in DOMAIN invites /\ InviteFinally(i))

SpecInvite == InitInvite /\ [][NextInvite]_vars /\ InviteFairness

-----------------------------------------------------------------------------
(* Vocabulary of the properties below.                                     *)

\* the elements of a sequence
Range(seq) == {seq[i] : i \in 1..Len(seq)}

\* the allow-list entries of a category id
AllowListEntries(categoryId) ==
    {category \in Range(SuborgAllowListTable) : category.id = categoryId}

\* the connector ids the allow-list declares for a category id
AllowedConnectorIds(categoryId) ==
    UNION {{connector.id : connector \in Range(category.connectors)} :
              category \in AllowListEntries(categoryId)}

\* the property names the allow-list declares for a connector of a category
DeclaredPropertyNames(categoryId, connectorId) ==
    UNION {Range(connector.properties) :
              connector \in {c \in UNION {Range(category.connectors) :
                                             category \in AllowListEntries(categoryId)} :
                                c.id = connectorId}}

\* the last filter call returned
FilterReturned == filterCall.called /\ ~filterCall.threw

\* the values the response gives a name, and how often it gives the name
ValuesOf(properties, name) ==
    {properties[i].value : i \in {h \in 1..Len(properties) : properties[h].name = name}}
Occurrences(properties, name) ==
    Cardinality({i \in 1..Len(properties) : properties[i].name = name})

\* the entries of a payload with a given name
EntriesOf(data, name) ==
    {i \in 1..Len(data.properties) : data.properties[i].name = name}

\* the payload has exactly one entry of that name, and it has that value
Emits(data, name, value) ==
    /\ Cardinality(EntriesOf(data, name)) = 1
    /\ \A i \in EntriesOf(data, name) : data.properties[i].value = value

\* the order getSelfSignUpPatchCallData declares its entries in
DeclaredKeyOrder ==
    << SELF_REGISTRATION_ENABLE, ACCOUNT_LOCK_ON_CREATION,
       NOTIFICATION_INTERNALLY_MANAGED, RE_CAPTCHA,
       VERIFICATION_CODE_EXPIRY_TIME, SMS_OTP_EXPIRY_TIME, CALLBACK_REGEX >>

\* the response holds every required scalar key exactly once
ScalarsExactlyOnce ==
    \A key \in ScalarKeys : Occurrences(response.properties, key) = 1

-----------------------------------------------------------------------------
(* C1. SpecFilter.                                                         *)

\* C1: filterGovernanceConnectorCategories never mutates its input: after a
\* call with an allow-listed category id every input connector has the same
\* properties list as before the call.
C1_InputNotMutated ==
    FilterReturned =>
        \A i \in 1..Len(filterCall.input) :
            governanceConnectors[filterCall.input[i]].properties
                = filterCall.before[filterCall.input[i]].properties

-----------------------------------------------------------------------------
(* C2. SpecFilter.                                                         *)

\* C2: a call with a category id that has no allow-list entry fails with an
\* UnknownCategoryError.
C2_UnknownCategoryError ==
    (filterCall.called /\ AllowListEntries(filterCall.categoryId) = {}) =>
        (filterCall.threw /\ filterCall.error.kind = "UnknownCategoryError")

-----------------------------------------------------------------------------
(* C3. SpecMapper.                                                         *)

\* C3: when a required scalar key is absent from the response, the load
\* handler fails with a MissingPropertyError.
C3_MissingPropertyError ==
    (loadState # "pending"
        /\ \E key \in ScalarKeys : Occurrences(response.properties, key) = 0) =>
        (loadState = "threw" /\ loadError.kind = "MissingPropertyError")

-----------------------------------------------------------------------------
(* C4. SpecFilter.                                                         *)

\* C4: the result of the filter holds only connectors of the input, and a
\* supplied connector whose id is not in the category's allow-list is not in
\* the result at all, whatever its property list.
C4_ResultSubsetOfAllowed ==
    FilterReturned =>
        /\ Range(filterCall.result) \subseteq Range(filterCall.input)
        /\ \A i \in 1..Len(filterCall.input) :
              LET id == filterCall.before[filterCall.input[i]].id
              IN  id \notin AllowedConnectorIds(filterCall.categoryId) =>
                     /\ filterCall.input[i] \notin Range(filterCall.result)
                     /\ \A ref \in Range(filterCall.result) :
                           governanceConnectors[ref].id # id

\* a returned call that dropped one connector and kept another
C4_Witness ==
    /\ FilterReturned
    /\ filterCall.result # <<>>
    /\ \E i \in 1..Len(filterCall.input) :
          filterCall.before[filterCall.input[i]].id
              \notin AllowedConnectorIds(filterCall.categoryId)

-----------------------------------------------------------------------------
(* C5. SpecFilter.                                                         *)

\* C5: a retained connector's properties are exactly its input properties
\* whose name the allow-list declares for that connector id, in the order the
\* connector had them.
C5_PropertiesFilteredInOrder ==
    FilterReturned =>
        \A ref \in Range(filterCall.result) :
            governanceConnectors[ref].properties
                = SelectSeq(filterCall.before[ref].properties,
                            LAMBDA property :
                                property.name \in DeclaredPropertyNames(
                                    filterCall.categoryId, filterCall.before[ref].id))

\* a retained connector that lists two declared properties in the reverse of
\* the allow-list's order, and keeps them so
C5_Witness ==
    /\ FilterReturned
    /\ \E ref \in Range(filterCall.result) :
          /\ Len(governanceConnectors[ref].properties) = 2
          /\ governanceConnectors[ref].properties[1].name = "EmailVerification.ExpiryTime"
          /\ governanceConnectors[ref].properties[2].name = "EmailVerification.Enable"

-----------------------------------------------------------------------------
(* C6. SpecFilter.                                                         *)

\* C6 as stated: a call with the category id "account-recovery" succeeds.
C6_AccountRecoveryIdSucceeds ==
    (filterCall.called /\ filterCall.categoryId = "account-recovery") =>
        ~filterCall.threw

\* C6 as amended: a call with the category id QWNjb3VudCBNYW5hZ2VtZW50 (Account
\* Management, the category that lists the account-recovery connector)
\* succeeds and returns only connectors whose id is in that category's
\* allow-list, each with properties among the declared ones.
C6_AccountManagementFiltered ==
    (filterCall.called /\ filterCall.categoryId = ACCOUNT_MANAGEMENT_CATEGORY) =>
        /\ ~filterCall.threw
        /\ \A ref \in Range(filterCall.result) :
              /\ governanceConnectors[ref].id = ACCOUNT_RECOVERY_CONNECTOR
              /\ \A property \in Range(governanceConnectors[ref].properties) :
                    property.name = "Recovery.Notification.Password.Enable"

\* a call for Account Management that kept a connector and dropped another
C6_Witness ==
    /\ filterCall.called
    /\ filterCall.categoryId = ACCOUNT_MANAGEMENT_CATEGORY
    /\ ~filterCall.threw
    /\ Len(filterCall.result) = 1
    /\ Len(filterCall.input) = 2
    /\ Len(filterCall.before[filterCall.result[1]].properties)
          > Len(governanceConnectors[filterCall.result[1]].properties)

-----------------------------------------------------------------------------
(* C7. SpecMapper.                                                         *)

\* C7: a boolean-flag key is in checkboxValues if and only if the response
\* holds a property of that name whose value is exactly "true", and nothing
\* but boolean-flag keys is ever in checkboxValues.
C7_CheckboxValuesIffTrue ==
    /\ LET values == getSelfRegistrationCheckboxValues(response)
       IN  /\ Range(values) \subseteq BooleanFlagKeys
           /\ \A key \in BooleanFlagKeys :
                 key \in Range(values) <=> "true" \in ValuesOf(response.properties, key)
    /\ loadState = "resolved" =>
          /\ Range(selfSignUpConfigs.checkboxValues) \subseteq BooleanFlagKeys
          /\ \A key \in BooleanFlagKeys :
                key \in Range(selfSignUpConfigs.checkboxValues)
                    <=> "true" \in ValuesOf(response.properties, key)

\* the example: Enable "true", LockOnCreation "false" and the three scalars
\* give checkboxValues = [SelfRegistration.Enable]
C7_Witness ==
    /\ loadState = "resolved"
    /\ response.properties =
          << [name |-> SELF_REGISTRATION_ENABLE, value |-> "true"],
             [name |-> ACCOUNT_LOCK_ON_CREATION, value |-> "false"],
             [name |-> VERIFICATION_CODE_EXPIRY_TIME, value |-> "1440"],
             [name |-> SMS_OTP_EXPIRY_TIME, value |-> "1"],
             [name |-> CALLBACK_REGEX, value |-> ".*"] >>
    /\ selfSignUpConfigs.checkboxValues = << SELF_REGISTRATION_ENABLE >>
    /\ selfSignUpConfigs.verificationCodeExpiryTime = "1440"

-----------------------------------------------------------------------------
(* C8. SpecForm.                                                           *)

\* C8: the patch data holds exactly one entry per declared key, seven in all,
\* in the declared order, whatever checkboxValues holds.
C8_OneEntryPerDeclaredKey ==
    patchCall.called =>
        /\ ~patchCall.threw
        /\ Len(patchCall.data.properties) = 7
        /\ \A i \in 1..7 : patchCall.data.properties[i].name = DeclaredKeyOrder[i]

\* patch data built from a checkbox value with a foreign name and a duplicate
C8_Witness ==
    /\ patchCall.called
    /\ \E i, j \in 1..Len(patchCall.configs.checkboxValues) :
          /\ i # j
          /\ patchCall.configs.checkboxValues[i] = patchCall.configs.checkboxValues[j]
          /\ patchCall.configs.checkboxValues[i] \notin BooleanFlagKeys

-----------------------------------------------------------------------------
(* C9. SpecRoundTrip.                                                        *)

\* C9 as stated: when the response holds each required scalar key exactly
\* once, the patch data built from the loaded configuration (the only
\* configuration patch data can be built from here) gives every
\* boolean-flag key the "true"/"false" value the response gives it, and every
\* scalar key the response's value.
C9_RoundTrip ==
    (patchCall.called /\ ~patchCall.threw /\ ScalarsExactlyOnce) =>
        /\ \A i \in 1..Len(response.properties) :
              (/\ response.properties[i].name \in BooleanFlagKeys
               /\ response.properties[i].value \in {"true", "false"}) =>
                  Emits(patchCall.data, response.properties[i].name,
                        response.properties[i].value)
        /\ \A i \in 1..Len(response.properties) :
              response.properties[i].name \in ScalarKeys =>
                  Emits(patchCall.data, response.properties[i].name,
                        response.properties[i].value)

\* no boolean-flag key is given both as "true" and as "false"
NoConflictingFlags ==
    \A key \in BooleanFlagKeys :
        ~({"true", "false"} \subseteq ValuesOf(response.properties, key))

\* C9 as amended: the same, for the responses that moreover give no
\* boolean-flag key both as "true" and as "false".
C9_RoundTripNoConflict ==
    (patchCall.called /\ ~patchCall.threw /\ ScalarsExactlyOnce
        /\ NoConflictingFlags) =>
        /\ \A i \in 1..Len(response.properties) :
              (/\ response.properties[i].name \in BooleanFlagKeys
               /\ response.properties[i].value \in {"true", "false"}) =>
                  Emits(patchCall.data, response.properties[i].name,
                        response.properties[i].value)
        /\ \A i \in 1..Len(response.properties) :
              response.properties[i].name \in ScalarKeys =>
                  Emits(patchCall.data, response.properties[i].name,
                        response.properties[i].value)

\* a round trip of a response with one flag on and one flag off
C9_Witness ==
    /\ patchCall.called
    /\ ~patchCall.threw
    /\ ScalarsExactlyOnce
    /\ NoConflictingFlags
    /\ \E key \in BooleanFlagKeys : ValuesOf(response.properties, key) = {"true"}
    /\ \E key \in BooleanFlagKeys : ValuesOf(response.properties, key) = {"false"}

-----------------------------------------------------------------------------
(* C10. SpecForm.                                                          *)

\* C10: the patch data gives a boolean-flag key "true" when checkboxValues
\* contains it and "false" otherwise, gives each scalar key the stored value
\* as it is, and its operation is "UPDATE".
C10_FlagsAndScalarsVerbatim ==
    patchCall.called =>
        /\ patchCall.data.operation = "UPDATE"
        /\ \A key \in BooleanFlagKeys :
              Emits(patchCall.data, key,
                    IF key \in Range(patchCall.configs.checkboxValues)
                    THEN "true" ELSE "false")
        /\ Emits(patchCall.data, VERIFICATION_CODE_EXPIRY_TIME,
                 patchCall.configs.verificationCodeExpiryTime)
        /\ Emits(patchCall.data, SMS_OTP_EXPIRY_TIME,
                 patchCall.configs.smsOTPExpiryTime)
        /\ Emits(patchCall.data, CALLBACK_REGEX, patchCall.configs.callbackRegex)

\* patch data with a flag on and a flag off, a negative expiry time, an
\* expiry time of zero and a regex that is none passed through
C10_Witness ==
    /\ patchCall.called
    /\ Emits(patchCall.data, RE_CAPTCHA, "true")
    /\ Emits(patchCall.data, SELF_REGISTRATION_ENABLE, "false")
    /\ Emits(patchCall.data, VERIFICATION_CODE_EXPIRY_TIME, "-1")
    /\ Emits(patchCall.data, SMS_OTP_EXPIRY_TIME, "0")
    /\ Emits(patchCall.data, CALLBACK_REGEX, "[")

-----------------------------------------------------------------------------
(* C11. SpecMapper.                                                        *)

\* the value of the first property of that name
FirstValueOf(properties, name) ==
    properties[CHOOSE i \in 1..Len(properties) :
                  /\ properties[i].name = name
                  /\ \A h \in 1..(i - 1) : properties[h].name # name].value

\* C11: for each of the three scalar keys the stored configuration holds the
\* raw string value of the first property of the response with that name,
\* unchanged; later properties of the same name are ignored.
C11_ScalarsFromFirstMatch ==
    loadState = "resolved" =>
        /\ selfSignUpConfigs.verificationCodeExpiryTime
              = FirstValueOf(response.properties, VERIFICATION_CODE_EXPIRY_TIME)
        /\ selfSignUpConfigs.smsOTPExpiryTime
              = FirstValueOf(response.properties, SMS_OTP_EXPIRY_TIME)
        /\ selfSignUpConfigs.callbackRegex
              = FirstValueOf(response.properties, CALLBACK_REGEX)

\* a loaded response that names the verification expiry time twice, with two
\* values, and the first one was stored
C11_Witness ==
    /\ loadState = "resolved"
    /\ ValuesOf(response.properties, VERIFICATION_CODE_EXPIRY_TIME) = {"1440", "true"}
    /\ selfSignUpConfigs.verificationCodeExpiryTime = "true"

-----------------------------------------------------------------------------
(* C12. SpecFilter.                                                        *)

\* C12: the static allow-list table is never modified: after any sequence of
\* filter calls, also ones made on what an earlier call returned, its
\* categories, connector ids and property-name lists are the initial ones.
C12_TableNeverModified ==
    SHOW_GOVERNANCE_CONNECTORS_FOR_SUBORGS = SuborgAllowListTable

\* a call made on the result of an earlier call (a proper part of the
\* listing), which kept a connector that still has properties
C12_Witness ==
    /\ FilterReturned
    /\ Len(filterCall.input) < Len(governanceConnectors)
    /\ \E ref \in Range(filterCall.result) :
          governanceConnectors[ref].properties # <<>>

-----------------------------------------------------------------------------
(* C13. SpecLabels.                                                        *)

\* the camel-cased forms of the categories and names resolved here
CamelCased ==
    ("account-recovery" :> "accountRecovery")
    @@ ("Account Management" :> "accountManagement")
    @@ ("user_onboarding" :> "userOnboarding")
    @@ ("EmailVerification.Enable" :> "emailVerificationEnable")
    @@ ("Recovery.Notification.Password.Enable" :> "recoveryNotificationPasswordEnable")
    @@ ("_url_listPurposeJITProvisioning" :> "urlListPurposeJitProvisioning")

\* the lookup key of a call: a function of the function called, the category
\* and the name alone
LookupKeyOf(call) ==
    "console:manage.features.governanceConnectors.connectorCategories."
        \o CamelCased[call.category] \o ".connectors." \o CamelCased[call.name]
        \o ".properties." \o CamelCased[call.name]
        \o (IF call.fn = "resolveFieldLabel" THEN ".label" ELSE ".hint")

\* C13: resolveFieldLabel and resolveFieldHint look up the key built from the
\* camel-cased category and property name (the same key for the same category
\* and name), return the provider's string when the provider holds that key,
\* and return the fallback unchanged otherwise.
C13_TranslationOrFallback ==
    resolveCall.called =>
        /\ resolveCall.key = LookupKeyOf(resolveCall)
        /\ resolveCall.result =
              IF LookupKeyOf(resolveCall) \in DOMAIN i18nResources
              THEN i18nResources[LookupKeyOf(resolveCall)]
              ELSE resolveCall.fallback

\* the example: resolveFieldLabel("account-recovery", "EmailVerification.Enable",
\* "Enable") with a bundle that holds the key gives the translation
C13_Witness ==
    /\ resolveCall.called
    /\ resolveCall.fn = "resolveFieldLabel"
    /\ resolveCall.category = "account-recovery"
    /\ resolveCall.name = "EmailVerification.Enable"
    /\ resolveCall.fallback = "Enable"
    /\ resolveCall.key \in DOMAIN i18nResources
    /\ resolveCall.result = "Enable email verification"

-----------------------------------------------------------------------------
(* C14. SpecScreen.                                                        *)

\* C14: when loading the configuration fails, selfSignUpConfigs is left as it
\* was before the load, an error notification is dispatched to the user, and
\* the load is not asked for again.
C14_LoadFailureNotified ==
    [][(loadState = "pending" /\ loadState' = "threw") =>
          /\ selfSignUpConfigs' = selfSignUpConfigs
          /\ getRequests' = getRequests
          /\ Len(alerts') = Len(alerts) + 1
          /\ alerts'[Len(alerts')].level = "ERROR"]_vars

-----------------------------------------------------------------------------
(* C15. SpecScreen.                                                        *)

\* the update requests made so far
RequestsIssued == Len(patchRequests)

-----------------------------------------------------------------------------
(* C16. SpecScreen.                                                        *)

\* request i goes from pending to the given state in this step
Settles(i, state) ==
    /\ i \in DOMAIN patchRequests
    /\ patchRequests[i].state = "pending"
    /\ patchRequests'[i].state = state

\* the alerts dispatched in this step
NewAlerts == SubSeq(alerts', Len(alerts) + 1, Len(alerts'))

\* C16: when the update request succeeds, exactly one SUCCESS alert is
\* dispatched, the confirmation modal is closed and the edit form is hidden;
\* when it fails, the modal and the edit form stay as they are,
\* selfSignUpConfigs is unchanged and no SUCCESS alert is dispatched.
C16_SuccessClosesFailureKeeps ==
    [][\A i \in 1..MaxRequests :
          /\ Settles(i, "fulfilled") =>
                /\ SubSeq(alerts', 1, Len(alerts)) = alerts
                /\ Len(NewAlerts) = 1
                /\ NewAlerts[1].level = "SUCCESS"
                /\ ~showConfirmationModal'
                /\ ~editingForm'
          /\ Settles(i, "rejected") =>
                /\ SubSeq(alerts', 1, Len(alerts)) = alerts
                /\ \A k \in 1..Len(NewAlerts) : NewAlerts[k].level # "SUCCESS"
                /\ showConfirmationModal' = showConfirmationModal
                /\ editingForm' = editingForm
                /\ selfSignUpConfigs' = selfSignUpConfigs]_vars

\* a request failed while another is pending: the modal and the form are
\* open still and the one alert is an ERROR alert
C16_Witness ==
    /\ RequestsIssued = 2
    /\ patchRequests[1].state = "rejected"
    /\ patchRequests[2].state = "pending"
    /\ showConfirmationModal
    /\ editingForm
    /\ Len(alerts) = 1
    /\ alerts[1].level = "ERROR"

-----------------------------------------------------------------------------
(* C17. SpecScreen.                                                        *)

UpdateConfigurationsText(name, options) ==
    [key |-> "views:components.serverConfigs.selfRegistration.notifications."
                \o "updateConfigurations." \o name,
     options |-> options]

\* C17: every failed update request dispatches exactly one ERROR alert: with
\* no response or status 401 the plain error description; otherwise, with a
\* response that carries data.detail, the error description with that detail;
\* otherwise the generic error.
C17_OneErrorAlertByPriority ==
    [][\A i \in 1..MaxRequests :
          Settles(i, "rejected") =>
              LET error == patchRequests'[i].error
              IN  /\ SubSeq(alerts', 1, Len(alerts)) = alerts
                  /\ Len(NewAlerts) = 1
                  /\ NewAlerts[1].level = "ERROR"
                  /\ NewAlerts[1].description =
                        IF ~error.hasResponse \/ error.status = 401
                        THEN UpdateConfigurationsText("error.description", <<>>)
                        ELSE IF error.hasData /\ error.detail # ""
                        THEN UpdateConfigurationsText(
                                 "error.description",
                                 << [description |-> error.detail] >>)
                        ELSE UpdateConfigurationsText("genericError.description", <<>>)
                  /\ NewAlerts[1].message =
                        IF ~error.hasResponse \/ error.status = 401
                              \/ (error.hasData /\ error.detail # "")
                        THEN UpdateConfigurationsText("error.message", <<>>)
                        ELSE UpdateConfigurationsText("genericError.message", <<>>)]_vars

\* a request rejected with status 401 and a detail got the plain description,
\* and one rejected with status 400 and a detail got the description with it
C17_Witness ==
    /\ RequestsIssued = 2
    /\ patchRequests[1].state = "rejected"
    /\ patchRequests[1].error.status = 401
    /\ patchRequests[1].error.detail # ""
    /\ patchRequests[2].state = "rejected"
    /\ patchRequests[2].error.status = 400
    /\ patchRequests[2].error.detail # ""
    /\ Len(alerts) = 2
    /\ \E k \in 1..2 : alerts[k].description.options = <<>>
    /\ \E k \in 1..2 : alerts[k].description.options # <<>>

-----------------------------------------------------------------------------
(* C18. SpecInvite.                                                        *)

\* the places of the calls of `fn` among the calls of one invitation
CallsOf(calls, fn) == {k \in DOMAIN calls : calls[k].fn = fn}

\* the places of the alerts of one level among the calls of one invitation
AlertsOf(calls, level) ==
    {k \in CallsOf(calls, "addAlert") : calls[k].args[1].level = level}

\* the request of invitation i was just answered, with either outcome: the
\* callback of that outcome is due
InviteSettled(i) == i \in DOMAIN invites /\ invites[i].pc \in {"then", "catch"}

\* the calls of invitation i end with setIsSubmitting(false), closeWizard is
\* among them, and isSubmitting is false
InviteClosed(i) ==
    /\ i \in DOMAIN invites
    /\ LET calls == invites[i].calls
       IN  /\ calls[Len(calls)].fn = "setIsSubmitting"
           /\ calls[Len(calls)].args[1] = FALSE
           /\ CallsOf(calls, "closeWizard") # {}
    /\ ~isSubmitting

\* C18: in every submission setIsSubmitting(true) is called before the
\* request is sent; and when the request is answered, with success or with
\* failure, the submission comes to a point where setIsSubmitting(false) was
\* its last call, closeWizard was called, and isSubmitting is false.
C18_SubmittingEndsAfterSettle ==
    /\ [](\A i \in DOMAIN invites :
             \A k \in CallsOf(invites[i].calls, "sendParentOrgUserInvite") :
                 \E j \in 1..(k - 1) :
                     /\ invites[i].calls[j].fn = "setIsSubmitting"
                     /\ invites[i].calls[j].args[1] = TRUE)
    /\ \A i \in 1..MaxInvites : InviteSettled(i) ~> InviteClosed(i)

\* a failed invitation ran to its end: the request was sent after
\* setIsSubmitting(true), and the last call was setIsSubmitting(false)
C18_Witness ==
    \E i \in DOMAIN invites :
        /\ invites[i].outcome = "rejected"
        /\ invites[i].pc = "done"
        /\ CallsOf(invites[i].calls, "sendParentOrgUserInvite") = {2}
        /\ InviteClosed(i)

-----------------------------------------------------------------------------
(* C19. SpecInvite.                                                        *)

\* the .then or the .catch callback of invitation i has run
InviteHandled(i) == invites[i].pc \in {"finally", "done"}

\* C19: onUserInviteSuccess is called at most once in a submission, and only
\* in one whose request succeeded, after the SUCCESS alert and before every
\* closeWizard; it is called then if the parent gave one. In a submission
\* whose request failed it is never called, no SUCCESS alert is dispatched,
\* and the .catch callback dispatches exactly one ERROR alert.
C19_SuccessCallbackOnlyOnSuccess ==
    \A i \in DOMAIN invites :
        LET calls == invites[i].calls
            notified == CallsOf(calls, "onUserInviteSuccess")
        IN  /\ Cardinality(notified) <= 1
            /\ \A s \in notified :
                   /\ invites[i].outcome = "fulfilled"
                   /\ \E a \in AlertsOf(calls, "SUCCESS") : a < s
                   /\ \A w \in CallsOf(calls, "closeWizard") : s < w
            /\ (invites[i].outcome = "fulfilled" /\ InviteHandled(i)
                  /\ onUserInviteSuccess)
                   => notified # {}
            /\ invites[i].outcome = "rejected" =>
                   /\ notified = {}
                   /\ AlertsOf(calls, "SUCCESS") = {}
                   /\ Cardinality(AlertsOf(calls, "ERROR")) =
                         IF InviteHandled(i) THEN 1 ELSE 0

\* one invitation succeeded and told the parent between the SUCCESS alert and
\* closeWizard, another failed and dispatched an ERROR alert
C19_Witness ==
    /\ \E i \in DOMAIN invites :
          /\ invites[i].outcome = "fulfilled"
          /\ invites[i].pc = "done"
          /\ \E s \in CallsOf(invites[i].calls, "onUserInviteSuccess") :
                /\ invites[i].calls[s - 1].fn = "addAlert"
                /\ invites[i].calls[s + 1].fn = "closeWizard"
    /\ \E i \in DOMAIN invites :
          /\ invites[i].outcome = "rejected"
          /\ invites[i].pc = "done"
          /\ AlertsOf(invites[i].calls, "ERROR") # {}

-----------------------------------------------------------------------------
(* C20. SpecInvite.                                                        *)

SendInviteText(name, options) ==
    [key |-> "console:manage.features.invite.notifications.sendInvite." \o name,
     options |-> options]

LimitReachText(name) ==
    [key |-> "extensions:manage.invite.notifications.sendInvite.limitReachError."
                \o name,
     options |-> <<>>]

\* the alert the priority of C20 gives for `error`
InviteErrorAlertByPriority(error) ==
    IF ~error.hasResponse \/ error.status = 401
    THEN [level |-> "ERROR",
          description |-> SendInviteText("error.description", <<>>),
          message |-> SendInviteText("error.message", <<>>)]
    ELSE IF error.status = 403 /\ error.hasData
            /\ error.code = ERROR_COLLABORATOR_USER_LIMIT_REACHED
    THEN [level |-> "ERROR",
          description |-> LimitReachText("description"),
          message |-> LimitReachText("message")]
    ELSE IF error.hasData /\ error.description # ""
    THEN [level |-> "ERROR",
          description |-> SendInviteText("error.description",
                                         << [description |-> error.description] >>),
          message |-> SendInviteText("error.message", <<>>)]
    ELSE [level |-> "ERROR",
          description |-> SendInviteText("genericError.description", <<>>),
          message |-> SendInviteText("genericError.message", <<>>)]

\* C20: for every error handleParentOrgUserInviteError dispatches exactly one
\* alert, an ERROR alert: with no response or status 401 the send-invite
\* error; else with status 403 and the code of the reached user limit the
\* limit-reached error; else with data.description the send-invite error
\* with that description; else the generic error.
C20_InviteErrorAlertByPriority ==
    \A i \in DOMAIN invites :
        (invites[i].outcome = "rejected" /\ InviteHandled(i)) =>
            LET calls == invites[i].calls
            IN  /\ Cardinality(CallsOf(calls, "addAlert")) = 1
                /\ \A a \in CallsOf(calls, "addAlert") :
                       calls[a].args = << InviteErrorAlertByPriority(invites[i].error) >>

\* an error of status 403 with the code of the user limit and a description
\* got the limit-reached alert, and one of status 400 with the same code and
\* a description got the send-invite error with its description
C20_Witness ==
    /\ \E i \in DOMAIN invites :
          /\ InviteHandled(i)
          /\ invites[i].error.status = 403
          /\ invites[i].error.code = ERROR_COLLABORATOR_USER_LIMIT_REACHED
          /\ invites[i].error.description # ""
          /\ \E a \in AlertsOf(invites[i].calls, "ERROR") :
                invites[i].calls[a].args[1].description = LimitReachText("description")
    /\ \E i \in DOMAIN invites :
          /\ InviteHandled(i)
          /\ invites[i].error.status = 400
          /\ invites[i].error.code = ERROR_COLLABORATOR_USER_LIMIT_REACHED
          /\ \E a \in AlertsOf(invites[i].calls, "ERROR") :
                invites[i].calls[a].args[1].description.options # <<>>

====
